---- MODULE Spec2Model ----
(***************************************************************************)
(* DimensionReduction.ipynb run top to bottom in one kernel.               *)
(*                                                                         *)
(* The kernel is a record k: its global names (adata, adata_scvi, vae,     *)
(* results_file), the AnnData objects and the arrays they point to, the    *)
(* file system the run sees, the statement about to run (pc), the          *)
(* exception that stopped the run (err) and the list of library calls made *)
(* so far (log).  Every code statement of the notebook is one action.      *)
(*                                                                         *)
(* The count matrix is given by blocks: a cell block stands for            *)
(* input.mult[c] cells with the same row, a gene block for GeneMult[g]     *)
(* genes with the same column.  This keeps the thresholds of the notebook  *)
(* (200 genes, 3 cells, 2500 genes, 5 percent, 100 components, 2000 top    *)
(* genes) at the values the code gives them.                               *)
(*                                                                         *)
(* Numerical results (embeddings, graphs, cluster labels) are terms that   *)
(* record what the routine read: the representation, its data, its         *)
(* parameters and its seed.                                                *)
(***************************************************************************)
EXTENDS Integers, Sequences, FiniteSets, TLC

VARIABLES input, k, k2

vars == <<input, k, k2>>

(* ------------------------------ bounds --------------------------------- *)

NCellBlocks == 2

CellBlocks == 1..NCellBlocks

\* a cell block is one cell or a population of cells
CellMults == {1, 150}

GeneBlocks == {"A", "B", "M"}

\* genes per block: A holds CST3, B holds NKG7 and PPBP, M is a mitochondrial gene
GeneMult == [g \in GeneBlocks |-> CASE g = "A" -> 200 [] g = "B" -> 2300 [] OTHER -> 1]

\* the first gene name of each block, as a sequence of characters
GeneName == [g \in GeneBlocks |->
               CASE g = "A" -> <<"C", "S", "T", "3">>
                 [] g = "B" -> <<"N", "K", "G", "7">>
                 [] OTHER   -> <<"M", "T", "-", "N", "D", "1">>]

\* the block that holds a gene the notebook names in a plot
BlockOfGene(name) == CASE name = "CST3" -> "A" [] name = "NKG7" -> "B" [] name = "PPBP" -> "B"

\* rows a cell block can have: counts per gene of each gene block
Profiles ==
  { [A |-> 0,  B |-> 0, M |-> 1],     \* one detected gene
    [A |-> 1,  B |-> 0, M |-> 1],     \* 201 genes, 201 counts
    [A |-> 0,  B |-> 1, M |-> 0],     \* 2300 genes
    [A |-> 1,  B |-> 1, M |-> 0],     \* 2500 genes
    [A |-> 1,  B |-> 0, M |-> 20],    \* 201 genes, 9 percent mitochondrial
    [A |-> 20, B |-> 0, M |-> 0] }    \* 200 genes, 4000 counts

\* the position of cell block c of a data set in the listing of its blocks
KindKey(inp, c) ==
  ((inp.mult[c] * 21 + inp.counts[c].A) * 2 + inp.counts[c].B) * 21 + inp.counts[c].M

\* the data sets the URL can serve.  No step depends on the order of the rows, so
\* the blocks are listed in one order.
Datasets ==
  {inp \in [mult : [CellBlocks -> CellMults], counts : [CellBlocks -> Profiles]] :
     \A c \in CellBlocks \ {NCellBlocks} : KindKey(inp, c) <= KindKey(inp, c + 1)}

\* what the dispersion cut of sc.pp.highly_variable_genes can select
Dispersed == SUBSET GeneBlocks

\* values of the operating system's entropy pool that seed an unseeded generator
Entropy == {1, 2}

(* ------------------------------ helpers -------------------------------- *)

Min(a, b) == IF a <= b THEN a ELSE b

RECURSIVE SumOver(_, _)
SumOver(S, f) ==
  IF S = {} THEN 0
  ELSE LET x == CHOOSE y \in S : TRUE IN f[x] + SumOver(S \ {x}, f)

EmptyMap == [x \in {} |-> 0]

Put(f, key, val) == [x \in (DOMAIN f) \cup {key} |-> IF x = key THEN val ELSE f[x]]

\* str.startswith on names given as character sequences
StartsWith(s, p) == Len(s) >= Len(p) /\ SubSeq(s, 1, Len(p)) = p

\* a stored number: n/d, or log(1 + n/d) when log is set
Num(n) == [n |-> n, d |-> 1, log |-> FALSE]

Zero == Num(0)

(* ------------------------------ AnnData -------------------------------- *)

\* obs and var are multiplicity maps; a block with multiplicity 0 is absent
Present(m) == {x \in DOMAIN m : m[x] > 0}

Count(m) == SumOver(DOMAIN m, m)

Cells(a) == Present(a.obs)

Genes(a) == Present(a.var)

n_obs(a) == Count(a.obs)

n_vars(a) == Count(a.var)

\* array indexing M[rows, cols]: a new array
Restrict(M, cs, gs) == [p \in cs \X gs |-> M[p]]

RestrictCol(col, cs) == [c \in cs |-> col[c]]

RestrictMult(m, keep) == [x \in DOMAIN m |-> IF x \in keep THEN m[x] ELSE 0]

NoRaw == [set |-> FALSE]

\* the state of the kernel before the first cell runs
Kernel0(workdir, network) ==
  [ pc           |-> "pip_install",
    err          |-> "none",
    log          |-> <<>>,
    fs           |-> [workdir |-> workdir, network |-> network, cwd |-> "start",
                      data |-> FALSE, files |-> EmptyMap, writes |-> <<>>],
    results_file |-> "unbound",
    adata        |-> 0,
    adata_scvi   |-> 0,
    vae          |-> [bound |-> FALSE],
    heap         |-> <<>>,
    arrays       |-> <<>> ]

\* a statement starts: the library call is logged
Call(kk, step, fn) == [kk EXCEPT !.log = Append(@, [step |-> step, fn |-> fn])]

\* a statement raises: the run stops at it
Raise(kk, exc) == [kk EXCEPT !.err = exc]

Goto(kk, next) == [kk EXCEPT !.pc = next]

NewArray(kk, M) == [kk EXCEPT !.arrays = Append(@, M)]

NewObject(kk, a) == [kk EXCEPT !.heap = Append(@, a)]

\* the content of X, of a layer and of raw.X of object o
XOf(kk, o) == Restrict(kk.arrays[kk.heap[o].X], Cells(kk.heap[o]), Genes(kk.heap[o]))

LayerOf(kk, o, key) ==
  Restrict(kk.arrays[kk.heap[o].layers[key]], Cells(kk.heap[o]), Genes(kk.heap[o]))


RawOf(kk, o) ==
  Restrict(kk.arrays[kk.heap[o].raw.X], Cells(kk.heap[o]), Present(kk.heap[o].raw.var))

\* AnnData.copy() and AnnData._init_as_actual: object o restricted to obs x var,
\* stored as object tgt with arrays of its own.  "counts" is the only layer key
\* the notebook uses.
CopyInto(kk, o, tgt, obs, var) ==
  LET a    == kk.heap[o]
      cs   == Present(obs)
      gs   == Present(var)
      n    == Len(kk.arrays)
      hasC == "counts" \in DOMAIN a.layers
      xM   == Restrict(kk.arrays[a.X], cs, gs)
      lM   == IF hasC THEN <<Restrict(kk.arrays[a.layers["counts"]], cs, gs)>> ELSE <<>>
      rM   == IF a.raw.set
              THEN <<Restrict(kk.arrays[a.raw.X], cs, Present(a.raw.var))>> ELSE <<>>
      b    == [a EXCEPT !.is_view = FALSE, !.ref = 0, !.obs = obs, !.var = var,
                 !.X = n + 1,
                 !.layers = IF hasC THEN [x \in {"counts"} |-> n + 2] ELSE EmptyMap,
                 !.raw = IF a.raw.set THEN [a.raw EXCEPT !.X = n + Len(lM) + 2] ELSE NoRaw,
                 !.obs_cols = [c \in DOMAIN a.obs_cols |-> RestrictCol(a.obs_cols[c], cs)],
                 !.var_cols = [c \in DOMAIN a.var_cols |-> RestrictCol(a.var_cols[c], gs)],
                 !.obsm = [e \in DOMAIN a.obsm |->
                             [a.obsm[e] EXCEPT !.rows = RestrictMult(@, cs)]]]
  IN [kk EXCEPT !.arrays = (@ \o <<xM>>) \o (lM \o rM),
                !.heap = IF tgt <= Len(@) THEN [@ EXCEPT ![tgt] = b] ELSE Append(@, b)]

\* adata[mask, :] made eagerly into an object of its own (adata[mask, :].copy())
GetItemObsCopy(kk, o, keep) ==
  CopyInto(kk, o, Len(kk.heap) + 1, RestrictMult(kk.heap[o].obs, keep), kk.heap[o].var)

\* adata[mask, :]: a new AnnData that is a view of the object o refers to; X and
\* the layers stay the arrays of that object, read through the view's index
GetItemObs(kk, o, keep) ==
  LET a  == kk.heap[o]
      cs == Cells(a) \cap keep
      n  == Len(kk.arrays)
      v  == [a EXCEPT !.is_view = TRUE,
                 !.ref = IF a.is_view THEN a.ref ELSE o,
                 !.obs = RestrictMult(a.obs, keep),
                 !.raw = IF a.raw.set THEN [a.raw EXCEPT !.X = n + 1] ELSE NoRaw,
                 !.obs_cols = [c \in DOMAIN a.obs_cols |-> RestrictCol(a.obs_cols[c], cs)],
                 !.obsm = [e \in DOMAIN a.obsm |->
                             [a.obsm[e] EXCEPT !.rows = RestrictMult(@, cs)]]]
      k1 == IF a.raw.set
            THEN NewArray(kk, Restrict(kk.arrays[a.raw.X], cs, Present(a.raw.var)))
            ELSE kk
  IN NewObject(k1, v)

\* the getter adata.X: the array of an actual object, a new array for a view.
\* The result is <<kernel, array id>>.
GetX(kk, o) ==
  IF kk.heap[o].is_view
  THEN <<NewArray(kk, XOf(kk, o)), Len(kk.arrays) + 1>>
  ELSE <<kk, kk.heap[o].X>>

\* adata.layers[key] = arr: a view is first made an actual object (a copy of
\* itself), then the mapping stores the array it was given, without copying it
SetLayer(kk, o, key, arr) ==
  LET k1 == IF kk.heap[o].is_view
            THEN CopyInto(kk, o, o, kk.heap[o].obs, kk.heap[o].var)
            ELSE kk
  IN [k1 EXCEPT !.heap[o].layers = Put(@, key, arr)]

\* per cell: the number of genes with a count, the sum of counts over genes gs
GenesDetected(M, a, c) == SumOver({g \in Genes(a) : M[<<c, g>>].n > 0}, a.var)

CountsOver(M, a, c, gs) == SumOver(gs, [g \in gs |-> a.var[g] * M[<<c, g>>].n])

\* per gene: the number of cells with a count, the sum of counts over cells
CellsDetected(M, a, g) == SumOver({c \in Cells(a) : M[<<c, g>>].n > 0}, a.obs)

CountsOfGene(M, a, g) ==
  SumOver(Cells(a), [c \in Cells(a) |-> a.obs[c] * M[<<c, g>>].n])


(* ------------------- program constants of the notebook ------------------ *)

MinGenes == 200

MinCells == 3

MaxGenesByCounts == 2500

MaxPctCountsMt == 5

TargetSum == 10000

(* ----------------------- loading and filtering -------------------------- *)

\* the install cell: shell lines, which raise nothing in the kernel
pip_install(kk) == Goto(Call(kk, "pip_install", "shell"), "chdir")

\* os.chdir wrapped in try/except: the run goes on in the directory it started in
os_chdir_or_stay(kk) ==
  Goto(Call(kk, "chdir", "os.chdir"), "download")

\* os.chdir to the hard-coded directory
os_chdir(kk) ==
  LET k1 == Call(kk, "chdir", "os.chdir")
  IN IF ~k1.fs.workdir THEN Raise(k1, "FileNotFoundError")
     ELSE Goto([k1 EXCEPT !.fs.cwd = "MethodsSnack"], "download")

\* !mkdir, !wget, !tar, !mkdir: a failing shell line raises nothing; the data
\* directory exists afterwards only when the download worked
download(kk) ==
  LET k1 == Call(kk, "download", "shell")
  IN Goto([k1 EXCEPT !.fs.data = k1.fs.network], "read_10x_mtx")

CachePath == "cache/data-filtered_gene_bc_matrices-hg19-matrix.h5ad"

\* results_file = ...; adata = sc.read_10x_mtx(dir, var_names="gene_symbols", cache=True)
sc_read_10x_mtx(kk, inp) ==
  LET k1 == [Call(kk, "read_10x_mtx", "sc.read_10x_mtx")
               EXCEPT !.results_file = "data/pbmc3k.h5ad"]
      M  == [p \in CellBlocks \X GeneBlocks |-> Num(inp.counts[p[1]][p[2]])]
      a  == [is_view |-> FALSE, ref |-> 0, obs |-> inp.mult, var |-> GeneMult,
             X |-> Len(k1.arrays) + 1, layers |-> EmptyMap, raw |-> NoRaw,
             obs_cols |-> EmptyMap,
             var_cols |-> [c \in {"gene_ids"} |-> [g \in GeneBlocks |-> GeneName[g]]],
             obsm |-> EmptyMap, uns |-> EmptyMap]
      k2a == NewObject(NewArray(k1, M), a)
  IN IF ~k1.fs.data THEN Raise(k1, "FileNotFoundError")
     ELSE Goto([k2a EXCEPT !.adata = Len(k2a.heap),
                           !.fs.files = Put(@, CachePath, "matrix"),
                           !.fs.writes = Append(@, CachePath)],
               "var_names_make_unique")

\* adata.var_names_make_unique(): the names of the gene blocks are distinct
var_names_make_unique(kk) ==
  Goto(Call(kk, "var_names_make_unique", "adata.var_names_make_unique"), "set_raw")

\* adata.raw = adata: raw keeps the array X refers to and the genes of this moment
set_raw(kk) ==
  LET k1 == Call(kk, "set_raw", "adata.raw")
      a  == k1.heap[k1.adata]
  IN Goto([k1 EXCEPT !.heap[k1.adata].raw = [set |-> TRUE, X |-> a.X, var |-> a.var]],
          "pl_highest_expr_genes")

pl_highest_expr_genes(kk) ==
  Goto(Call(kk, "pl_highest_expr_genes", "sc.pl.highest_expr_genes"), "filter_cells")

\* sc.pp.filter_cells(adata, min_genes=200): obs["n_genes"], then the subset in place
sc_pp_filter_cells(kk) ==
  LET k1   == Call(kk, "filter_cells", "sc.pp.filter_cells")
      o    == k1.adata
      a    == k1.heap[o]
      M    == XOf(k1, o)
      num  == [c \in Cells(a) |-> GenesDetected(M, a, c)]
      keep == {c \in Cells(a) : num[c] >= MinGenes}
      k2a  == [k1 EXCEPT !.heap[o].obs_cols = Put(@, "n_genes", num)]
  IN Goto(CopyInto(k2a, o, o, RestrictMult(a.obs, keep), a.var), "filter_genes")

\* sc.pp.filter_genes(adata, min_cells=3): var["n_cells"], then the subset in place
sc_pp_filter_genes(kk) ==
  LET k1   == Call(kk, "filter_genes", "sc.pp.filter_genes")
      o    == k1.adata
      a    == k1.heap[o]
      M    == XOf(k1, o)
      num  == [g \in Genes(a) |-> CellsDetected(M, a, g)]
      keep == {g \in Genes(a) : num[g] >= MinCells}
      k2a  == [k1 EXCEPT !.heap[o].var_cols = Put(@, "n_cells", num)]
  IN Goto(CopyInto(k2a, o, o, a.obs, RestrictMult(a.var, keep)), "annotate_mt")

\* adata.var['mt'] = adata.var_names.str.startswith('MT-')
annotate_mt(kk) ==
  LET k1 == Call(kk, "annotate_mt", "str.startswith")
      a  == k1.heap[k1.adata]
      mt == [g \in Genes(a) |-> StartsWith(GeneName[g], <<"M", "T", "-">>)]
  IN Goto([k1 EXCEPT !.heap[k1.adata].var_cols = Put(@, "mt", mt)],
          "calculate_qc_metrics")

\* a ratio num/den of floats: nan when the denominator is 0
Ratio(num, den) == [num |-> num, den |-> den]

\* the comparison ratio < bound; a comparison with nan is False
RatioBelow(r, bound) == r.den > 0 /\ r.num < bound * r.den

\* sc.pp.calculate_qc_metrics(adata, qc_vars=['mt'], percent_top=None, log1p=False,
\* inplace=True)
sc_pp_calculate_qc_metrics(kk) ==
  LET k1  == Call(kk, "calculate_qc_metrics", "sc.pp.calculate_qc_metrics")
      o   == k1.adata
      a   == k1.heap[o]
      M   == XOf(k1, o)
      cs  == Cells(a)
      gs  == Genes(a)
      mts == {g \in gs : a.var_cols["mt"][g]}
      tot == [c \in cs |-> CountsOver(M, a, c, gs)]
      tmt == [c \in cs |-> CountsOver(M, a, c, mts)]
      oc  == Put(Put(Put(Put(a.obs_cols,
               "n_genes_by_counts", [c \in cs |-> GenesDetected(M, a, c)]),
               "total_counts", tot),
               "total_counts_mt", tmt),
               "pct_counts_mt", [c \in cs |-> Ratio(100 * tmt[c], tot[c])])
      vc  == Put(Put(Put(Put(a.var_cols,
               "n_cells_by_counts", [g \in gs |-> CellsDetected(M, a, g)]),
               "total_counts", [g \in gs |-> CountsOfGene(M, a, g)]),
               "mean_counts", [g \in gs |-> Ratio(CountsOfGene(M, a, g), n_obs(a))]),
               "pct_dropout_by_counts",
               [g \in gs |-> Ratio(100 * (n_obs(a) - CellsDetected(M, a, g)), n_obs(a))])
  IN IF "mt" \notin DOMAIN a.var_cols THEN Raise(k1, "KeyError")
     ELSE Goto([k1 EXCEPT !.heap[o].obs_cols = oc, !.heap[o].var_cols = vc], "pl_violin")

\* a plot that reads columns of adata.obs
PlotObs(kk, step, fn, cols, next) ==
  LET k1 == Call(kk, step, fn)
  IN IF cols \subseteq DOMAIN k1.heap[k1.adata].obs_cols THEN Goto(k1, next)
     ELSE Raise(k1, "KeyError")

pl_violin(kk) ==
  PlotObs(kk, "pl_violin", "sc.pl.violin",
          {"n_genes_by_counts", "total_counts", "pct_counts_mt"}, "pl_scatter")

pl_scatter(kk) ==
  PlotObs(kk, "pl_scatter", "sc.pl.scatter",
          {"n_genes_by_counts", "total_counts", "pct_counts_mt"}, "remove_n_genes")

\* the first QC removal with a mask that is True for every cell (adata[:, :])
remove_n_genes_keep_all(kk) ==
  LET k1  == Call(kk, "remove_n_genes", "adata.__getitem__")
      k2a == GetItemObs(k1, k1.adata, Cells(k1.heap[k1.adata]))
  IN Goto([k2a EXCEPT !.adata = Len(k2a.heap)], "remove_pct_mt")

\* adata = adata[adata.obs.n_genes_by_counts < 2500, :]
remove_n_genes(kk) ==
  LET k1   == Call(kk, "remove_n_genes", "adata.__getitem__")
      o    == k1.adata
      a    == k1.heap[o]
      keep == {c \in Cells(a) : a.obs_cols["n_genes_by_counts"][c] < MaxGenesByCounts}
      k2a  == GetItemObs(k1, o, keep)
  IN IF "n_genes_by_counts" \notin DOMAIN a.obs_cols THEN Raise(k1, "AttributeError")
     ELSE Goto([k2a EXCEPT !.adata = Len(k2a.heap)], "remove_pct_mt")

\* adata = adata[adata.obs.pct_counts_mt < 5, :]
remove_pct_mt(kk) ==
  LET k1   == Call(kk, "remove_pct_mt", "adata.__getitem__")
      o    == k1.adata
      a    == k1.heap[o]
      keep == {c \in Cells(a) : RatioBelow(a.obs_cols["pct_counts_mt"][c], MaxPctCountsMt)}
      k2a  == GetItemObs(k1, o, keep)
  IN IF "pct_counts_mt" \notin DOMAIN a.obs_cols THEN Raise(k1, "AttributeError")
     ELSE Goto([k2a EXCEPT !.adata = Len(k2a.heap)], "save_counts")


(* --------------------- normalisation and annotation --------------------- *)

\* adata.layers["counts"] = adata.X: the right-hand side is evaluated first
save_counts(kk) ==
  LET k1 == Call(kk, "save_counts", "adata.layers.__setitem__")
      gx == GetX(k1, k1.adata)
  IN Goto(SetLayer(gx[1], k1.adata, "counts", gx[2]), "normalize_total")

\* a library routine that writes into adata first makes a view an actual object
ViewToActual(kk, o) ==
  IF kk.heap[o].is_view THEN CopyInto(kk, o, o, kk.heap[o].obs, kk.heap[o].var) ELSE kk

\* sc.pp.normalize_total(adata, target_sum=1e4): every row of X is scaled, in the
\* array X refers to, so that it sums to target_sum (a row of zeros is left alone)
sc_pp_normalize_total(kk) ==
  LET k1  == ViewToActual(Call(kk, "normalize_total", "sc.pp.normalize_total"), kk.adata)
      a   == k1.heap[k1.adata]
      M   == k1.arrays[a.X]
      gs  == Genes(a)
      tot == [c \in Cells(a) |-> CountsOver(M, a, c, gs)]
      N   == [p \in DOMAIN M |->
                IF M[p].n = 0 THEN M[p]
                ELSE [M[p] EXCEPT !.n = @ * TargetSum, !.d = @ * tot[p[1]]]]
  IN Goto([k1 EXCEPT !.arrays[a.X] = N], "log1p")

\* sc.pp.log1p(adata): log(1 + x) of the stored entries, in the array X refers to
sc_pp_log1p(kk) ==
  LET k1 == ViewToActual(Call(kk, "log1p", "sc.pp.log1p"), kk.adata)
      a  == k1.heap[k1.adata]
      M  == k1.arrays[a.X]
      L  == [p \in DOMAIN M |-> IF M[p].n = 0 THEN M[p] ELSE [M[p] EXCEPT !.log = TRUE]]
  IN Goto([k1 EXCEPT !.arrays[a.X] = L,
                     !.heap[k1.adata].uns = Put(@, "log1p", "base")],
          "highly_variable_genes")

\* the detection called with subset=True: the genes without the flag are dropped
sc_pp_highly_variable_genes_subset(kk, disp) ==
  LET k1 == Call(kk, "highly_variable_genes", "sc.pp.highly_variable_genes")
      o  == k1.adata
      a  == k1.heap[o]
      M  == XOf(k1, o)
      hv == {g \in Genes(a) : g \in disp /\ \E c \in Cells(a) : M[<<c, g>>].n > 0}
      k2a == [k1 EXCEPT !.heap[o].var_cols =
                 Put(@, "highly_variable", [g \in Genes(a) |-> g \in hv])]
  IN Goto(CopyInto(k2a, o, o, a.obs, RestrictMult(a.var, hv)), "pl_highly_variable_genes")

\* sc.pp.highly_variable_genes(adata, min_mean=0.0125, max_mean=3, min_disp=0.5):
\* a flag per gene in var; X, obs and var keep their shape.  Which genes pass the
\* dispersion cut is given by disp (a gene without any count has mean 0 and fails).
sc_pp_highly_variable_genes(kk, disp) ==
  LET k1 == Call(kk, "highly_variable_genes", "sc.pp.highly_variable_genes")
      o  == k1.adata
      a  == k1.heap[o]
      M  == XOf(k1, o)
      hv == [g \in Genes(a) |-> g \in disp /\ \E c \in Cells(a) : M[<<c, g>>].n > 0]
  IN Goto([k1 EXCEPT !.heap[o].var_cols = Put(Put(@, "highly_variable", hv),
                                              "dispersions_norm", [g \in Genes(a) |-> g \in disp]),
                     !.heap[o].uns = Put(@, "hvg", "seurat")],
          "pl_highly_variable_genes")

\* the PCA cell run right after the detection of highly variable genes, ahead of
\* the neighbor graph and the clustering
pl_highly_variable_genes_then_pca(kk) ==
  Goto(Call(kk, "pl_highly_variable_genes", "sc.pl.highly_variable_genes"), "pca")

pl_highly_variable_genes(kk) ==
  LET k1 == Call(kk, "pl_highly_variable_genes", "sc.pl.highly_variable_genes")
  IN IF "highly_variable" \in DOMAIN k1.heap[k1.adata].var_cols
     THEN Goto(k1, "neighbors_1") ELSE Raise(k1, "KeyError")

(* --------------------------- PCA and graphs ----------------------------- *)

\* scanpy settings.N_PCS, the default number of components
N_PCS == 50

\* the arpack solver accepts 1 <= n_comps < min(n_obs, n_vars)
PcaFits(n_comps, min_dim) == 1 <= n_comps /\ n_comps < min_dim

\* the seed of a call made with random_state left unset (None): the entropy pool
SeedUnset(e) == e

\* sc.tl.pca called with random_state=None: the seed comes from the machine
pca_random_state_none(e) == SeedUnset(e)

\* the seed of sc.tl.pca(adata, n_comps=100, svd_solver='arpack'): random_state
\* is not passed and defaults to 0, whatever the entropy pool holds
pca_random_state(e) == 0

\* the result of a PCA of X over the genes of varUsed
PcaTerm(kk, o, n_comps, varUsed, seed) ==
  [method |-> "pca", rows |-> kk.heap[o].obs, n_comps |-> n_comps,
   input |-> [name |-> "X", genes |-> varUsed,
              data |-> Restrict(XOf(kk, o), Cells(kk.heap[o]), Present(varUsed))],
   seed |-> seed]

\* _choose_representation(adata, n_pcs=n_pcs): with more than N_PCS genes the
\* routine works on X_pca, which it computes with default parameters and stores
\* when it is missing; the result is the kernel (err set when it raises)
choose_representation(kk, o, n_pcs) ==
  LET a       == kk.heap[o]
      min_dim == Min(n_obs(a), n_vars(a))
      n_comps == IF N_PCS >= min_dim THEN min_dim - 1 ELSE N_PCS
  IN IF n_vars(a) <= N_PCS THEN kk
     ELSE IF "X_pca" \in DOMAIN a.obsm
          THEN IF n_pcs > a.obsm["X_pca"].n_comps THEN Raise(kk, "ValueError") ELSE kk
          ELSE IF ~PcaFits(n_comps, min_dim) THEN Raise(kk, "ValueError")
               ELSE [kk EXCEPT !.heap[o].obsm =
                        Put(@, "X_pca", PcaTerm(kk, o, Min(n_pcs, n_comps), a.var, 0))]

\* what the routine then reads: the first n_pcs columns of X_pca, or X itself
Representation(kk, o, n_pcs) ==
  IF n_vars(kk.heap[o]) > N_PCS
  THEN [name |-> "X_pca", n_pcs |-> n_pcs, data |-> kk.heap[o].obsm["X_pca"]]
  ELSE [name |-> "X", n_pcs |-> 0, data |-> XOf(kk, o)]

\* the cell of the first neighbor graph left out: sc.tl.leiden is the next call
neighbors_1_left_out(kk) == Goto(Call(kk, "neighbors_1", "sc.pp.neighbors"), "leiden")

\* sc.pp.neighbors(adata, n_neighbors, n_pcs): the graph is stored in uns/obsp
sc_pp_neighbors(kk, step, n_neighbors, n_pcs, next) ==
  LET k1 == ViewToActual(Call(kk, step, "sc.pp.neighbors"), kk.adata)
      o  == k1.adata
      k2a == choose_representation(k1, o, n_pcs)
      a  == k2a.heap[o]
      nn == IF n_neighbors > n_obs(a) THEN 1 + (n_obs(a) \div 2) ELSE n_neighbors
      G  == [method |-> "neighbors", rows |-> a.obs, n_neighbors |-> nn,
             input |-> Representation(k2a, o, n_pcs), seed |-> 0]
  IN IF k2a.err # "none" THEN k2a
     ELSE Goto([k2a EXCEPT !.heap[o].uns = Put(@, "neighbors", G)], next)

neighbors_1(kk) == sc_pp_neighbors(kk, "neighbors_1", 10, 40, "leiden")

\* sc.tl.leiden(adata): clusters the graph of uns["neighbors"]
sc_tl_leiden(kk) ==
  LET k1 == Call(kk, "leiden", "sc.tl.leiden")
      o  == k1.adata
      a  == k1.heap[o]
      L  == [c \in Cells(a) |->
               [method |-> "leiden", cell |-> c,
                input |-> [name |-> "neighbors", data |-> a.uns["neighbors"]], seed |-> 0]]
  IN IF "neighbors" \notin DOMAIN a.uns THEN Raise(k1, "KeyError")
     ELSE Goto([k1 EXCEPT !.heap[o].obs_cols = Put(@, "leiden", L)], "pca")

PcaNComps == 100

\* sc.tl.pca(adata, n_comps=100, svd_solver='arpack'): on the highly variable
\* genes when var has the flag; e is the entropy pool at the time of the call
sc_tl_pca(kk, e) ==
  LET k1   == ViewToActual(Call(kk, "pca", "sc.tl.pca"), kk.adata)
      o    == k1.adata
      a    == k1.heap[o]
      used == IF "highly_variable" \in DOMAIN a.var_cols
              THEN RestrictMult(a.var, {g \in Genes(a) : a.var_cols["highly_variable"][g]})
              ELSE a.var
      T    == PcaTerm(k1, o, PcaNComps, used, pca_random_state(e))
  IN IF ~PcaFits(PcaNComps, Min(n_obs(a), Count(used))) THEN Raise(k1, "ValueError")
     ELSE Goto([k1 EXCEPT !.heap[o].obsm = Put(@, "X_pca", T),
                          !.heap[o].uns = Put(@, "pca", "variance_ratio")],
               "pl_pca")


\* a scatter plot of obsm[basis], colored by obs columns and by genes; a gene is
\* looked up in adata.raw when raw is set
PlotEmbedding(kk, step, fn, basis, obsKeys, geneKeys, next) ==
  LET k1 == Call(kk, step, fn)
      a  == k1.heap[k1.adata]
      vs == IF a.raw.set THEN Present(a.raw.var) ELSE Genes(a)
  IN IF /\ basis \in DOMAIN a.obsm
        /\ obsKeys \subseteq DOMAIN a.obs_cols
        /\ \A gname \in geneKeys : BlockOfGene(gname) \in vs
     THEN Goto(k1, next) ELSE Raise(k1, "KeyError")

pl_pca(kk) == PlotEmbedding(kk, "pl_pca", "sc.pl.pca", "X_pca", {}, {}, "pl_pca_color")

pl_pca_color(kk) ==
  PlotEmbedding(kk, "pl_pca_color", "sc.pl.pca", "X_pca", {"leiden"}, {"CST3"},
                "pl_pca_variance_ratio")

pl_pca_variance_ratio(kk) ==
  LET k1 == Call(kk, "pl_pca_variance_ratio", "sc.pl.pca_variance_ratio")
  IN IF "pca" \in DOMAIN k1.heap[k1.adata].uns THEN Goto(k1, "write")
     ELSE Raise(k1, "KeyError")

\* what adata.write stores of object o: the arrays by content
Serialize(kk, o) ==
  LET a == kk.heap[o]
  IN [obs |-> a.obs, var |-> a.var, X |-> XOf(kk, o),
      layers |-> [key \in DOMAIN a.layers |-> LayerOf(kk, o, key)],
      obs_cols |-> a.obs_cols, var_cols |-> a.var_cols, obsm |-> a.obsm, uns |-> a.uns,
      raw |-> IF a.raw.set THEN [set |-> TRUE, var |-> a.raw.var, X |-> RawOf(kk, o)]
              ELSE NoRaw]

\* adata.write(results_file)
adata_write(kk) ==
  LET k1 == Call(kk, "write", "adata.write")
  IN Goto([k1 EXCEPT !.fs.files = Put(@, k1.results_file, Serialize(k1, k1.adata)),
                     !.fs.writes = Append(@, k1.results_file)],
          "tsne")

(* --------------------------- t-SNE and UMAP ----------------------------- *)

\* sc.tl.tsne(adata, n_pcs=10, perplexity=20, early_exaggeration=12,
\* learning_rate=200, random_state=6, metric="euclidean")
sc_tl_tsne(kk) ==
  LET k1  == ViewToActual(Call(kk, "tsne", "sc.tl.tsne"), kk.adata)
      o   == k1.adata
      k2a == choose_representation(k1, o, 10)
      T   == [method |-> "tsne", rows |-> k2a.heap[o].obs, n_comps |-> 2,
              input |-> Representation(k2a, o, 10), seed |-> 6]
  IN IF k2a.err # "none" THEN k2a
     ELSE Goto([k2a EXCEPT !.heap[o].obsm = Put(@, "X_tsne", T),
                           !.heap[o].uns = Put(@, "tsne", "params")],
               "pl_tsne")

pl_tsne(kk) == PlotEmbedding(kk, "pl_tsne", "sc.pl.tsne", "X_tsne", {}, {}, "pl_tsne_color")

pl_tsne_color(kk) ==
  PlotEmbedding(kk, "pl_tsne_color", "sc.pl.tsne", "X_tsne", {"leiden"},
                {"CST3", "NKG7", "PPBP"}, "neighbors_2")

\* the UMAP cell without its sc.pp.neighbors call
neighbors_2_left_out(kk) == Goto(Call(kk, "neighbors_2", "skipped"), "umap")

neighbors_2(kk) == sc_pp_neighbors(kk, "neighbors_2", 15, 20, "umap")

\* sc.tl.umap(adata, min_dist=0.1, spread=0.3, alpha=1, gamma=1,
\* negative_sample_rate=5): embeds the graph of uns["neighbors"]
sc_tl_umap(kk) ==
  LET k1 == Call(kk, "umap", "sc.tl.umap")
      o  == k1.adata
      a  == k1.heap[o]
      T  == [method |-> "umap", rows |-> a.obs, n_comps |-> 2,
             input |-> [name |-> "neighbors", data |-> a.uns["neighbors"]], seed |-> 0]
  IN IF "neighbors" \notin DOMAIN a.uns THEN Raise(k1, "ValueError")
     ELSE Goto([k1 EXCEPT !.heap[o].obsm = Put(@, "X_umap", T),
                          !.heap[o].uns = Put(@, "umap", "params")],
               "pl_umap")

pl_umap(kk) == PlotEmbedding(kk, "pl_umap", "sc.pl.umap", "X_umap", {}, {}, "pl_umap_color")

pl_umap_color(kk) ==
  PlotEmbedding(kk, "pl_umap_color", "sc.pl.umap", "X_umap", {"leiden"},
                {"CST3", "NKG7", "PPBP"}, "copy")

(* -------------------------------- scVI ---------------------------------- *)

\* binding a second name to the same object (adata_scvi = adata)
adata_alias(kk, o) == <<kk, o>>

\* a copy of the first block of cells only (adata[rows].copy())
adata_copy_first_block(kk, o) ==
  <<CopyInto(kk, o, Len(kk.heap) + 1, RestrictMult(kk.heap[o].obs, {1}), kk.heap[o].var),
    Len(kk.heap) + 1>>

\* adata.copy(): <<kernel, the new object>>
adata_copy(kk, o) ==
  <<CopyInto(kk, o, Len(kk.heap) + 1, kk.heap[o].obs, kk.heap[o].var), Len(kk.heap) + 1>>

\* adata_scvi = adata.copy()
copy_scvi(kk) ==
  LET k1 == Call(kk, "copy", "adata.copy")
      cp == adata_copy(k1, k1.adata)
  IN Goto([cp[1] EXCEPT !.adata_scvi = cp[2]], "hvg_scvi")

NTopGenes == 2000

\* the first n genes in the order of their rank
RECURSIVE TopGenes(_, _, _)
TopGenes(order, var, n) ==
  IF order = <<>> THEN [g \in DOMAIN var |-> 0]
  ELSE LET g    == Head(order)
           take == Min(var[g], n)
       IN [TopGenes(Tail(order), var, n - take) EXCEPT ![g] = take]

\* sc.pp.highly_variable_genes(adata_scvi, flavor="seurat_v3", n_top_genes=2000,
\* layer="counts", subset=True): keeps the n_top_genes genes of highest rank, in
\* place; order is the rank the variances of the counts layer give the blocks
hvg_scvi(kk, order) ==
  LET k1  == Call(kk, "hvg_scvi", "sc.pp.highly_variable_genes")
      o   == k1.adata_scvi
      a   == k1.heap[o]
      top == TopGenes(order, a.var, NTopGenes)
      k2a == [k1 EXCEPT !.heap[o].var_cols =
                 Put(@, "highly_variable", [g \in Genes(a) |-> top[g] > 0]),
                        !.heap[o].uns = Put(@, "hvg", "seurat_v3")]
  IN IF "counts" \notin DOMAIN a.layers THEN Raise(k1, "KeyError")
     ELSE Goto(CopyInto(k2a, o, o, a.obs, top), "setup_anndata")

\* scvi.model.SCVI.setup_anndata(adata_scvi, layer="counts")
setup_anndata(kk) ==
  LET k1 == Call(kk, "setup_anndata", "scvi.model.SCVI.setup_anndata")
      o  == k1.adata_scvi
  IN IF "counts" \notin DOMAIN k1.heap[o].layers THEN Raise(k1, "KeyError")
     ELSE Goto([k1 EXCEPT !.heap[o].uns = Put(@, "_scvi", [layer |-> "counts"])], "SCVI")

\* vae = scvi.model.SCVI(adata_scvi, n_layers=2, n_latent=2, gene_likelihood="nb")
new_SCVI(kk) ==
  LET k1 == Call(kk, "SCVI", "scvi.model.SCVI")
      o  == k1.adata_scvi
  IN IF "_scvi" \notin DOMAIN k1.heap[o].uns THEN Raise(k1, "ValueError")
     ELSE Goto([k1 EXCEPT !.vae = [bound |-> TRUE, adata |-> o, n_latent |-> 2,
                                   layer |-> k1.heap[o].uns["_scvi"].layer,
                                   is_trained |-> FALSE, params |-> "init"]],
               "train")

\* vae.train(max_epochs=100, use_gpu=False): the weights depend on the registered
\* layer and on the seed of the generator, which the notebook does not set
vae_train(kk, e) ==
  LET k1 == Call(kk, "train", "vae.train")
      P  == [data |-> LayerOf(k1, k1.vae.adata, k1.vae.layer), seed |-> SeedUnset(e)]
  IN Goto([k1 EXCEPT !.vae.is_trained = TRUE, !.vae.params = P], "get_latent")

\* adata.obsm["X_scVI"] = vae.get_latent_representation(): one row per cell of the
\* model's AnnData; obsm refuses an array whose row count is not adata.n_obs
get_latent(kk) ==
  LET k1 == Call(kk, "get_latent", "vae.get_latent_representation")
      va == k1.heap[k1.vae.adata]
      Z  == [method |-> "scVI", rows |-> va.obs, n_comps |-> k1.vae.n_latent,
             input |-> [name |-> k1.vae.layer, genes |-> va.var,
                        data |-> LayerOf(k1, k1.vae.adata, k1.vae.layer)],
             seed |-> k1.vae.params]
      k2a == ViewToActual(k1, k1.adata)
  IN IF ~k1.vae.is_trained THEN Raise(k1, "RuntimeError")
     ELSE IF Count(Z.rows) # n_obs(k1.heap[k1.adata]) THEN Raise(k1, "ValueError")
     ELSE Goto([k2a EXCEPT !.heap[k1.adata].obsm = Put(@, "X_scVI", Z)], "pl_embedding")

\* the last cell followed by a final adata.write(results_file)
pl_embedding_then_write(kk) ==
  LET k1 == PlotEmbedding(kk, "pl_embedding", "sc.pl.embedding", "X_scVI", {"leiden"},
                          {"CST3", "NKG7", "PPBP"}, "done")
  IN IF k1.err # "none" THEN k1
     ELSE [k1 EXCEPT !.fs.files = Put(@, k1.results_file, Serialize(k1, k1.adata)),
                     !.fs.writes = Append(@, k1.results_file)]

pl_embedding(kk) ==
  PlotEmbedding(kk, "pl_embedding", "sc.pl.embedding", "X_scVI", {"leiden"},
                {"CST3", "NKG7", "PPBP"}, "done")


(* ------------------------------ the run --------------------------------- *)

\* the rank orders seurat_v3 can give the gene blocks
RankOrders ==
  {s \in [1..Cardinality(GeneBlocks) -> GeneBlocks] : \A g \in GeneBlocks : \E i \in DOMAIN s : s[i] = g}

\* one statement of the notebook, chosen by pc: the cell order of the file.
\* e is the entropy pool and order the seurat_v3 rank at the time of the call.
Exec(kk, inp, disp, e, order) ==
  CASE kk.pc = "pip_install" -> pip_install(kk)
    [] kk.pc = "chdir" -> os_chdir(kk)
    [] kk.pc = "download" -> download(kk)
    [] kk.pc = "read_10x_mtx" -> sc_read_10x_mtx(kk, inp)
    [] kk.pc = "var_names_make_unique" -> var_names_make_unique(kk)
    [] kk.pc = "set_raw" -> set_raw(kk)
    [] kk.pc = "pl_highest_expr_genes" -> pl_highest_expr_genes(kk)
    [] kk.pc = "filter_cells" -> sc_pp_filter_cells(kk)
    [] kk.pc = "filter_genes" -> sc_pp_filter_genes(kk)
    [] kk.pc = "annotate_mt" -> annotate_mt(kk)
    [] kk.pc = "calculate_qc_metrics" -> sc_pp_calculate_qc_metrics(kk)
    [] kk.pc = "pl_violin" -> pl_violin(kk)
    [] kk.pc = "pl_scatter" -> pl_scatter(kk)
    [] kk.pc = "remove_n_genes" -> remove_n_genes(kk)
    [] kk.pc = "remove_pct_mt" -> remove_pct_mt(kk)
    [] kk.pc = "save_counts" -> save_counts(kk)
    [] kk.pc = "normalize_total" -> sc_pp_normalize_total(kk)
    [] kk.pc = "log1p" -> sc_pp_log1p(kk)
    [] kk.pc = "highly_variable_genes" -> sc_pp_highly_variable_genes(kk, disp)
    [] kk.pc = "pl_highly_variable_genes" -> pl_highly_variable_genes(kk)
    [] kk.pc = "neighbors_1" -> neighbors_1(kk)
    [] kk.pc = "leiden" -> sc_tl_leiden(kk)
    [] kk.pc = "pca" -> sc_tl_pca(kk, e)
    [] kk.pc = "pl_pca" -> pl_pca(kk)
    [] kk.pc = "pl_pca_color" -> pl_pca_color(kk)
    [] kk.pc = "pl_pca_variance_ratio" -> pl_pca_variance_ratio(kk)
    [] kk.pc = "write" -> adata_write(kk)
    [] kk.pc = "tsne" -> sc_tl_tsne(kk)
    [] kk.pc = "pl_tsne" -> pl_tsne(kk)
    [] kk.pc = "pl_tsne_color" -> pl_tsne_color(kk)
    [] kk.pc = "neighbors_2" -> neighbors_2(kk)
    [] kk.pc = "umap" -> sc_tl_umap(kk)
    [] kk.pc = "pl_umap" -> pl_umap(kk)
    [] kk.pc = "pl_umap_color" -> pl_umap_color(kk)
    [] kk.pc = "copy" -> copy_scvi(kk)
    [] kk.pc = "hvg_scvi" -> hvg_scvi(kk, order)
    [] kk.pc = "setup_anndata" -> setup_anndata(kk)
    [] kk.pc = "SCVI" -> new_SCVI(kk)
    [] kk.pc = "train" -> vae_train(kk, e)
    [] kk.pc = "get_latent" -> get_latent(kk)
    [] kk.pc = "pl_embedding" -> pl_embedding(kk)

\* the run goes on while no statement has raised and a statement is left
Running(kk) == kk.err = "none" /\ kk.pc # "done"

At(label) == Running(k) /\ k.pc = label

\* the data set the URL serves and the machine: whether the hard-coded
\* directory exists and the download works
Init ==
  /\ input \in Datasets
  /\ k \in {Kernel0(w, n) : w \in BOOLEAN, n \in BOOLEAN}
  /\ k2 = k

PipInstall == At("pip_install") /\ k' = pip_install(k) /\ UNCHANGED <<input, k2>>

Chdir == At("chdir") /\ k' = os_chdir(k) /\ UNCHANGED <<input, k2>>

Download == At("download") /\ k' = download(k) /\ UNCHANGED <<input, k2>>

Read10xMtx == At("read_10x_mtx") /\ k' = sc_read_10x_mtx(k, input) /\ UNCHANGED <<input, k2>>

VarNamesMakeUnique == At("var_names_make_unique") /\ k' = var_names_make_unique(k) /\ UNCHANGED <<input, k2>>

SetRaw == At("set_raw") /\ k' = set_raw(k) /\ UNCHANGED <<input, k2>>

PlHighestExprGenes == At("pl_highest_expr_genes") /\ k' = pl_highest_expr_genes(k) /\ UNCHANGED <<input, k2>>

FilterCells == At("filter_cells") /\ k' = sc_pp_filter_cells(k) /\ UNCHANGED <<input, k2>>

FilterGenes == At("filter_genes") /\ k' = sc_pp_filter_genes(k) /\ UNCHANGED <<input, k2>>

AnnotateMt == At("annotate_mt") /\ k' = annotate_mt(k) /\ UNCHANGED <<input, k2>>

CalculateQcMetrics == At("calculate_qc_metrics") /\ k' = sc_pp_calculate_qc_metrics(k) /\ UNCHANGED <<input, k2>>

PlViolin == At("pl_violin") /\ k' = pl_violin(k) /\ UNCHANGED <<input, k2>>

PlScatter == At("pl_scatter") /\ k' = pl_scatter(k) /\ UNCHANGED <<input, k2>>

RemoveNGenes == At("remove_n_genes") /\ k' = remove_n_genes(k) /\ UNCHANGED <<input, k2>>

RemovePctMt == At("remove_pct_mt") /\ k' = remove_pct_mt(k) /\ UNCHANGED <<input, k2>>

SaveCounts == At("save_counts") /\ k' = save_counts(k) /\ UNCHANGED <<input, k2>>

NormalizeTotal == At("normalize_total") /\ k' = sc_pp_normalize_total(k) /\ UNCHANGED <<input, k2>>

Log1p == At("log1p") /\ k' = sc_pp_log1p(k) /\ UNCHANGED <<input, k2>>

HighlyVariableGenes ==
  /\ At("highly_variable_genes")
  /\ \E disp \in Dispersed : k' = sc_pp_highly_variable_genes(k, disp)
  /\ UNCHANGED <<input, k2>>

PlHighlyVariableGenes == At("pl_highly_variable_genes") /\ k' = pl_highly_variable_genes(k) /\ UNCHANGED <<input, k2>>

Neighbors1 == At("neighbors_1") /\ k' = neighbors_1(k) /\ UNCHANGED <<input, k2>>

Leiden == At("leiden") /\ k' = sc_tl_leiden(k) /\ UNCHANGED <<input, k2>>

Pca == At("pca") /\ \E e \in Entropy : k' = sc_tl_pca(k, e) /\ UNCHANGED <<input, k2>>

PlPca == At("pl_pca") /\ k' = pl_pca(k) /\ UNCHANGED <<input, k2>>

PlPcaColor == At("pl_pca_color") /\ k' = pl_pca_color(k) /\ UNCHANGED <<input, k2>>

PlPcaVarianceRatio == At("pl_pca_variance_ratio") /\ k' = pl_pca_variance_ratio(k) /\ UNCHANGED <<input, k2>>

Write == At("write") /\ k' = adata_write(k) /\ UNCHANGED <<input, k2>>

Tsne == At("tsne") /\ k' = sc_tl_tsne(k) /\ UNCHANGED <<input, k2>>

PlTsne == At("pl_tsne") /\ k' = pl_tsne(k) /\ UNCHANGED <<input, k2>>

PlTsneColor == At("pl_tsne_color") /\ k' = pl_tsne_color(k) /\ UNCHANGED <<input, k2>>

Neighbors2 == At("neighbors_2") /\ k' = neighbors_2(k) /\ UNCHANGED <<input, k2>>

Umap == At("umap") /\ k' = sc_tl_umap(k) /\ UNCHANGED <<input, k2>>

PlUmap == At("pl_umap") /\ k' = pl_umap(k) /\ UNCHANGED <<input, k2>>

PlUmapColor == At("pl_umap_color") /\ k' = pl_umap_color(k) /\ UNCHANGED <<input, k2>>

CopyScvi == At("copy") /\ k' = copy_scvi(k) /\ UNCHANGED <<input, k2>>

HvgScvi ==
  At("hvg_scvi") /\ \E order \in RankOrders : k' = hvg_scvi(k, order) /\ UNCHANGED <<input, k2>>

SetupAnndata == At("setup_anndata") /\ k' = setup_anndata(k) /\ UNCHANGED <<input, k2>>

NewSCVI == At("SCVI") /\ k' = new_SCVI(k) /\ UNCHANGED <<input, k2>>

Train == At("train") /\ \E e \in Entropy : k' = vae_train(k, e) /\ UNCHANGED <<input, k2>>

GetLatent == At("get_latent") /\ k' = get_latent(k) /\ UNCHANGED <<input, k2>>

PlEmbedding == At("pl_embedding") /\ k' = pl_embedding(k) /\ UNCHANGED <<input, k2>>

Next ==
  \/ PipInstall
  \/ Chdir
  \/ Download
  \/ Read10xMtx
  \/ VarNamesMakeUnique
  \/ SetRaw
  \/ PlHighestExprGenes
  \/ FilterCells
  \/ FilterGenes
  \/ AnnotateMt
  \/ CalculateQcMetrics
  \/ PlViolin
  \/ PlScatter
  \/ RemoveNGenes
  \/ RemovePctMt
  \/ SaveCounts
  \/ NormalizeTotal
  \/ Log1p
  \/ HighlyVariableGenes
  \/ PlHighlyVariableGenes
  \/ Neighbors1
  \/ Leiden
  \/ Pca
  \/ PlPca
  \/ PlPcaColor
  \/ PlPcaVarianceRatio
  \/ Write
  \/ Tsne
  \/ PlTsne
  \/ PlTsneColor
  \/ Neighbors2
  \/ Umap
  \/ PlUmap
  \/ PlUmapColor
  \/ CopyScvi
  \/ HvgScvi
  \/ SetupAnndata
  \/ NewSCVI
  \/ Train
  \/ GetLatent
  \/ PlEmbedding

Spec == Init /\ [][Next]_vars


(* ------------------- two runs on the same data set --------------------- *)

\* the statements up to sc.tl.pca
UpToPca ==
  {"pip_install", "chdir", "download", "read_10x_mtx", "var_names_make_unique", "set_raw",
   "pl_highest_expr_genes", "filter_cells", "filter_genes", "annotate_mt",
   "calculate_qc_metrics", "pl_violin", "pl_scatter", "remove_n_genes", "remove_pct_mt",
   "save_counts", "normalize_total", "log1p", "highly_variable_genes",
   "pl_highly_variable_genes", "neighbors_1", "leiden", "pca"}

Active(kk) == Running(kk) /\ kk.pc \in UpToPca

\* two kernels, each on a machine of its own, are served the same data set
InitDet ==
  /\ input \in Datasets
  /\ k \in {Kernel0(w, n) : w \in BOOLEAN, n \in BOOLEAN}
  /\ k2 \in {Kernel0(w, n) : w \in BOOLEAN, n \in BOOLEAN}

\* the statements that are handed the state of the entropy pool
Randomized == {"pca", "train"}

\* the entropy a kernel's next statement can see; 0 where it is handed none
EntropyAt(kk) == IF kk.pc \in Randomized THEN Entropy ELSE {0}

\* both kernels run their next statement, each with the entropy of its machine;
\* the dispersions are those of the data set, the same for both
RunBoth ==
  /\ Active(k) \/ Active(k2)
  /\ \E e1 \in EntropyAt(k), e2 \in EntropyAt(k2), disp \in Dispersed :
       /\ k' = IF Active(k) THEN Exec(k, input, disp, e1, <<>>) ELSE k
       /\ k2' = IF Active(k2) THEN Exec(k2, input, disp, e2, <<>>) ELSE k2
  /\ UNCHANGED input

NextDet == RunBoth

SpecDet == InitDet /\ [][NextDet]_vars

(* ------------------------------ claims ---------------------------------- *)

\* the adata object of the run, and what the log says of a statement
A == k.heap[k.adata]

Logged(step) == \E i \in DOMAIN k.log : k.log[i].step = step

Completed(step) == Logged(step) /\ k.pc # step

Finished == k.pc = "done" /\ k.err = "none"

Stage4 == {"sc.pp.neighbors", "sc.tl.leiden"}

Stage5 == {"sc.tl.pca", "sc.tl.tsne", "sc.tl.umap", "vae.train"}

\* C1 as stated: no neighbor-graph computation and no clustering is invoked after
\* a dimension-reduction method (sc.tl.pca, sc.tl.tsne, sc.tl.umap, scVI training)
\* has been invoked.
C1_NoStage4AfterStage5 ==
  \A i, j \in DOMAIN k.log :
    i < j => ~(k.log[i].fn \in Stage5 /\ k.log[j].fn \in Stage4)

\* C1 amended: the first sc.pp.neighbors and sc.tl.leiden have completed before
\* any dimension-reduction method is invoked; the one stage-4 call made after a
\* stage-5 call is the second sc.pp.neighbors, which follows sc.tl.pca and
\* sc.tl.tsne only and precedes sc.tl.umap and the scVI training.
C1_FirstGraphAndClusteringBeforeStage5 ==
  /\ \A j \in DOMAIN k.log :
       k.log[j].fn \in Stage5 =>
         /\ \E i \in 1..(j - 1) : k.log[i].step = "neighbors_1"
         /\ \E i \in 1..(j - 1) : k.log[i].fn = "sc.tl.leiden"
         /\ "leiden" \in DOMAIN A.obs_cols
         /\ "neighbors" \in DOMAIN A.uns
  /\ \A i, j \in DOMAIN k.log :
       (i < j /\ k.log[i].fn \in Stage5 /\ k.log[j].fn \in Stage4) =>
         /\ k.log[j].step = "neighbors_2"
         /\ k.log[i].fn \in {"sc.tl.pca", "sc.tl.tsne"}
  /\ \A j \in DOMAIN k.log :
       k.log[j].fn \in {"sc.tl.umap", "vae.train"} =>
         \E i \in 1..(j - 1) : k.log[i].step = "neighbors_2"

\* a finished run, in which the second neighbor graph followed PCA and t-SNE
C1_Witness ==
  /\ Finished
  /\ \E i, j \in DOMAIN k.log :
       i < j /\ k.log[i].fn = "sc.tl.tsne" /\ k.log[j].step = "neighbors_2"

\* the binding of adata after the statement at pc, when it is one that binds it
Rebinders == {"read_10x_mtx", "remove_n_genes", "remove_pct_mt"}

\* C2 as stated: one annotated matrix throughout; no statement binds adata to
\* another object and no second annotated matrix is worked on.
C2_OneObjectMutatedInPlace ==
  Len(k.heap) <= 1 /\ k.adata \in {0, 1} /\ k.adata_scvi = 0

\* C2 amended: adata is bound by sc.read_10x_mtx and bound anew by each of the two
\* QC removals, to a new AnnData that is a view of the object read; adata.copy()
\* makes a second annotated matrix, adata_scvi, distinct from adata; every other
\* statement leaves both names on their objects and creates no AnnData.
C2_RebindingOnlyAtRemovalAndCopy ==
  [][ /\ (k.pc \in Rebinders /\ k'.err = "none") =>
           /\ k'.adata = Len(k.heap) + 1
           /\ Len(k'.heap) = Len(k.heap) + 1
           /\ k.pc # "read_10x_mtx" =>
                /\ k'.heap[k'.adata].is_view
                /\ k'.heap[k'.adata].ref = 1
      /\ (k.pc \notin Rebinders \/ k'.err # "none") => k'.adata = k.adata
      /\ (k.pc = "copy" /\ k'.err = "none") =>
           /\ k'.adata_scvi = Len(k.heap) + 1
           /\ Len(k'.heap) = Len(k.heap) + 1
           /\ k'.adata_scvi # k'.adata
      /\ k.pc # "copy" => k'.adata_scvi = k.adata_scvi
      /\ k.pc \notin Rebinders \cup {"copy"} => Len(k'.heap) = Len(k.heap)
    ]_vars

\* a finished run: four AnnData objects were made, adata is the third
C2_Witness == Finished /\ Len(k.heap) = 4 /\ k.adata = 3 /\ k.adata_scvi = 4

Embeddings == {"X_pca", "X_tsne", "X_umap", "X_scVI"}

MethodOf(e) ==
  CASE e = "X_pca" -> "pca" [] e = "X_tsne" -> "tsne" [] e = "X_umap" -> "umap"
    [] e = "X_scVI" -> "scVI"

\* C3: in a finished run adata.obsm holds the four embeddings, each with one row
\* per cell of adata, and the leiden labels cover the same cells; when the scVI
\* latent representation is about to be stored, the AnnData of the model has the
\* cells of adata, and every embedding adata holds at any time has its rows.
C3_EmbeddingsCoverTheCells ==
  /\ Finished =>
       /\ Embeddings \subseteq DOMAIN A.obsm
       /\ \A e \in Embeddings : A.obsm[e].method = MethodOf(e) /\ A.obsm[e].rows = A.obs
       /\ DOMAIN A.obs_cols["leiden"] = Cells(A)
       /\ Count(A.obsm["X_scVI"].rows) = n_obs(A)
  /\ k.pc = "get_latent" => k.heap[k.vae.adata].obs = A.obs
  /\ k.adata # 0 => \A e \in DOMAIN A.obsm : A.obsm[e].rows = A.obs

\* a finished run in which the QC removal dropped cells and kept others
C3_Witness ==
  /\ Finished
  /\ n_obs(A) > 0
  /\ n_obs(A) < n_obs(k.heap[1])
  /\ Count(A.obsm["X_scVI"].rows) = n_obs(A)


\* the QC removal is behind the run
AfterQc == Completed("remove_pct_mt")

\* C4 as stated: after the removal no retained cell has total_counts above the
\* cut-off and none has pct_counts_mt of 5 or more.
C4_NoCellAboveTotalCountsCutoff ==
  AfterQc =>
    \A c \in Cells(A) :
      /\ A.obs_cols["total_counts"][c] <= MaxGenesByCounts
      /\ RatioBelow(A.obs_cols["pct_counts_mt"][c], MaxPctCountsMt)

\* C5: a statement that raises stops the run at that statement: it is the last
\* entry of the log, it was run once, and no statement is run twice; a missing
\* working directory stops the run at os.chdir and a missing input directory at
\* sc.read_10x_mtx, with adata unbound; once stopped the kernel does not change.
C5_ExceptionStopsTheRun ==
  /\ \A i, j \in DOMAIN k.log : k.log[i].step = k.log[j].step => i = j
  /\ k.err # "none" => k.log # <<>> /\ k.log[Len(k.log)].step = k.pc
  /\ (Logged("chdir") /\ ~k.fs.workdir) =>
       k.err = "FileNotFoundError" /\ k.pc = "chdir" /\ Len(k.log) = 2
  /\ (Logged("read_10x_mtx") /\ ~k.fs.data) =>
       k.err = "FileNotFoundError" /\ k.pc = "read_10x_mtx" /\ k.adata = 0

\* the run stopped at sc.read_10x_mtx because the download had failed
C5_Witness ==
  /\ k.err = "FileNotFoundError"
  /\ k.pc = "read_10x_mtx"
  /\ k.fs.workdir /\ ~k.fs.network
  /\ Logged("read_10x_mtx")

Consumers == {"sc.tl.leiden", "sc.tl.tsne", "sc.tl.umap"}

\* every consumer call comes after a sc.pp.neighbors call
AfterAGraph ==
  \A j \in DOMAIN k.log :
    k.log[j].fn \in Consumers => \E i \in 1..(j - 1) : k.log[i].fn = "sc.pp.neighbors"

\* C6 as stated: sc.tl.leiden, sc.tl.tsne and sc.tl.umap are invoked after a
\* neighbor graph has been computed and each of them reads that graph.
C6_AllThreeConsumeTheGraph ==
  /\ AfterAGraph
  /\ k.adata # 0 =>
       /\ "leiden" \in DOMAIN A.obs_cols =>
            \A c \in Cells(A) : A.obs_cols["leiden"][c].input.name = "neighbors"
       /\ "X_tsne" \in DOMAIN A.obsm => A.obsm["X_tsne"].input.name = "neighbors"
       /\ "X_umap" \in DOMAIN A.obsm => A.obsm["X_umap"].input.name = "neighbors"

\* C6 amended: the three are invoked after a neighbor graph has been computed;
\* sc.tl.leiden reads the graph of the first sc.pp.neighbors call (10 neighbors)
\* and sc.tl.umap the graph of the second (15 neighbors, 20 components), while
\* sc.tl.tsne reads the first 10 components of X_pca and not the graph.
C6_LeidenAndUmapConsumeTheGraph ==
  /\ AfterAGraph
  /\ k.adata # 0 =>
       /\ "leiden" \in DOMAIN A.obs_cols =>
            \A c \in Cells(A) :
              /\ A.obs_cols["leiden"][c].input.name = "neighbors"
              /\ A.obs_cols["leiden"][c].input.data.n_neighbors
                   = IF n_obs(A) < 10 THEN 1 + (n_obs(A) \div 2) ELSE 10
       /\ "X_tsne" \in DOMAIN A.obsm =>
            /\ A.obsm["X_tsne"].input.name = "X_pca"
            /\ A.obsm["X_tsne"].input.n_pcs = 10
            /\ A.obsm["X_tsne"].input.data = A.obsm["X_pca"]
       /\ "X_umap" \in DOMAIN A.obsm =>
            /\ A.obsm["X_umap"].input.name = "neighbors"
            /\ A.obsm["X_umap"].input.data = A.uns["neighbors"]
            /\ A.obsm["X_umap"].input.data.n_neighbors = 15
            /\ A.obsm["X_umap"].input.data.input.n_pcs = 20

\* a finished run: the three results are there
C6_Witness ==
  /\ Finished
  /\ "leiden" \in DOMAIN A.obs_cols
  /\ {"X_tsne", "X_umap"} \subseteq DOMAIN A.obsm


\* the count the data set has for cell c and gene g
RawCount(c, g) == Num(input.counts[c][g])

\* C7: when scvi.model.SCVI.setup_anndata(adata_scvi, layer="counts") is called,
\* the counts layer of adata_scvi holds the count of the data set for every cell
\* and gene it has; so does the counts layer of adata from the moment it is set;
\* after sc.pp.normalize_total and sc.pp.log1p every non-zero entry of X is a
\* logarithm and no longer the count.
C7_CountsLayerHoldsRawCounts ==
  /\ (k.pc = "setup_anndata" /\ k.err = "none") =>
       \A c \in Cells(k.heap[k.adata_scvi]), g \in Genes(k.heap[k.adata_scvi]) :
         LayerOf(k, k.adata_scvi, "counts")[<<c, g>>] = RawCount(c, g)
  /\ (k.adata # 0 /\ "counts" \in DOMAIN A.layers) =>
       \A c \in Cells(A), g \in Genes(A) :
         LayerOf(k, k.adata, "counts")[<<c, g>>] = RawCount(c, g)
  /\ Completed("log1p") =>
       \A c \in Cells(A), g \in Genes(A) :
         input.counts[c][g] > 0 =>
           XOf(k, k.adata)[<<c, g>>].log /\ XOf(k, k.adata)[<<c, g>>] # RawCount(c, g)

\* setup_anndata is about to be called on a matrix with a non-zero count, whose X
\* holds the logarithm
C7_Witness ==
  /\ k.pc = "setup_anndata" /\ k.err = "none"
  /\ \E c \in Cells(k.heap[k.adata_scvi]), g \in Genes(k.heap[k.adata_scvi]) :
       /\ input.counts[c][g] > 0
       /\ XOf(k, k.adata_scvi)[<<c, g>>].log
       /\ LayerOf(k, k.adata_scvi, "counts")[<<c, g>>] = RawCount(c, g)

\* the statements up to sc.pp.filter_genes
UpToFilterGenes ==
  {"pip_install", "chdir", "download", "read_10x_mtx", "var_names_make_unique", "set_raw",
   "pl_highest_expr_genes", "filter_cells", "filter_genes"}

\* C8: no statement after sc.pp.filter_genes changes the genes of adata;
\* sc.pp.highly_variable_genes(adata, ...) leaves them and stores the flag
\* var.highly_variable.
C8_GenesOfAdataFixedAfterFilterGenes ==
  [][ k.pc \notin UpToFilterGenes =>
        /\ k'.heap[k'.adata].var = k.heap[k.adata].var
        /\ (k.pc = "highly_variable_genes" /\ k'.err = "none") =>
             /\ "highly_variable" \in DOMAIN k'.heap[k'.adata].var_cols
             /\ DOMAIN k'.heap[k'.adata].var_cols["highly_variable"] = Genes(k.heap[k.adata])
    ]_vars

\* a finished run in which adata still has a gene that is not highly variable,
\* while adata_scvi has lost genes
C8_Witness ==
  /\ Finished
  /\ \E g \in Genes(A) : ~A.var_cols["highly_variable"][g]
  /\ n_vars(k.heap[k.adata_scvi]) < n_vars(A)

\* the writes made to results_file
ResultWrites == {i \in DOMAIN k.fs.writes : k.fs.writes[i] = k.results_file}

LaterMethods == {"sc.tl.tsne", "sc.tl.umap", "vae.train", "vae.get_latent_representation"}

\* C9: results_file is written once, by adata.write, after sc.tl.pca and before
\* t-SNE, UMAP and scVI; the file holds the leiden labels and the PCA embedding of
\* sc.tl.pca and none of X_tsne, X_umap, X_scVI, and it stays as written.
C9_ResultsFileWrittenOnceAfterPca ==
  /\ Cardinality(ResultWrites) = IF Completed("write") THEN 1 ELSE 0
  /\ Finished => Completed("write")
  /\ \A i \in DOMAIN k.log :
       k.log[i].step = "write" =>
         /\ \E j \in 1..(i - 1) : k.log[j].fn = "sc.tl.pca"
         /\ \A j \in 1..(i - 1) : k.log[j].fn \notin LaterMethods
  /\ Completed("write") =>
       LET f == k.fs.files[k.results_file]
       IN /\ "leiden" \in DOMAIN f.obs_cols
          /\ "X_pca" \in DOMAIN f.obsm
          /\ f.obsm["X_pca"].n_comps = PcaNComps
          /\ DOMAIN f.obsm \cap {"X_tsne", "X_umap", "X_scVI"} = {}

\* a finished run: adata holds the later embeddings, the file does not
C9_Witness ==
  /\ Finished
  /\ {"X_tsne", "X_umap", "X_scVI"} \subseteq DOMAIN A.obsm
  /\ DOMAIN k.fs.files[k.results_file].obsm = {"X_pca"}

InputGenesDetected(c) == SumOver({g \in GeneBlocks : input.counts[c][g] > 0}, GeneMult)

\* the statements up to the second QC removal
UpToQcRemoval ==
  UpToFilterGenes \cup {"annotate_mt", "calculate_qc_metrics", "pl_violin", "pl_scatter",
                        "remove_n_genes", "remove_pct_mt"}

\* C11, the cells kept: once sc.pp.filter_cells has run every cell of adata has
\* n_genes >= 200, counted over the genes of the matrix as read; after the two QC
\* removals every cell of adata has n_genes_by_counts < 2500 and
\* pct_counts_mt < 5.
C11_RetainedCellsPassTheFilters ==
  /\ (Completed("filter_cells") /\ k.adata # 0) =>
       \A c \in Cells(A) :
         /\ A.obs_cols["n_genes"][c] = InputGenesDetected(c)
         /\ A.obs_cols["n_genes"][c] >= MinGenes
  /\ AfterQc =>
       \A c \in Cells(A) :
         /\ A.obs_cols["n_genes_by_counts"][c] < MaxGenesByCounts
         /\ RatioBelow(A.obs_cols["pct_counts_mt"][c], MaxPctCountsMt)

\* C11, the steps: no statement adds a cell to adata, no statement after the QC
\* removal changes the cells of adata, and adata_scvi has the cells of adata.
C11_CellSetShrinksThenStays ==
  /\ k.adata # 0 =>
       \A c \in CellBlocks : k'.heap[k'.adata].obs[c] <= k.heap[k.adata].obs[c]
  /\ k.pc \notin UpToQcRemoval =>
       /\ k'.heap[k'.adata].obs = k.heap[k.adata].obs
       /\ k'.adata_scvi # 0 => k'.heap[k'.adata_scvi].obs = k'.heap[k'.adata].obs

\* C11: after filter_cells (min_genes=200), filter_genes (min_cells=3) and the two
\* QC removals every cell of adata had at least 200 detected genes when
\* filter_cells ran, has n_genes_by_counts < 2500 and pct_counts_mt < 5; the cell
\* set never grows and no statement after the QC removal changes it.
C11_FilteredCellSet ==
  [](C11_RetainedCellsPassTheFilters) /\ [][C11_CellSetShrinksThenStays]_vars

\* a finished run that kept cells and in which a QC removal dropped cells that
\* sc.pp.filter_cells had kept
C11_Witness ==
  /\ Finished
  /\ Cells(A) # {}
  /\ \E c \in CellBlocks \ Cells(A) : InputGenesDetected(c) >= MinGenes


\* the statements that plot an embedding colored by leiden and by genes
ColoredPlots == {"pl_pca_color", "pl_tsne_color", "pl_umap_color", "pl_embedding"}

\* the embedding a plot statement draws
BasisOf ==
  [p \in {"pl_pca", "pl_pca_color", "pl_tsne", "pl_tsne_color", "pl_umap", "pl_umap_color",
          "pl_embedding"} |->
     CASE p \in {"pl_pca", "pl_pca_color"} -> "X_pca"
       [] p \in {"pl_tsne", "pl_tsne_color"} -> "X_tsne"
       [] p \in {"pl_umap", "pl_umap_color"} -> "X_umap"
       [] OTHER -> "X_scVI"]

\* C12: what the statement about to run reads has been written by an earlier
\* statement: the QC columns before the QC plots and removals, the counts layer
\* before the copy for scVI and its use there, leiden before a plot colored by it,
\* X_pca with enough components before sc.tl.tsne (n_pcs=10) and the second
\* sc.pp.neighbors (n_pcs=20), the neighbor graph before sc.tl.leiden and
\* sc.tl.umap, each embedding before its plot; the first sc.pp.neighbors finds no
\* X_pca and computes one itself.  No run stops with the KeyError, AttributeError
\* or RuntimeError of a missing item; a ValueError comes only from a PCA asked for
\* more components than the matrix allows.
C12_NothingReadBeforeWritten ==
  /\ (k.err = "none" /\ k.adata # 0) =>
       /\ k.pc = "calculate_qc_metrics" => "mt" \in DOMAIN A.var_cols
       /\ k.pc \in {"pl_violin", "pl_scatter", "remove_n_genes", "remove_pct_mt"} =>
            {"n_genes_by_counts", "total_counts", "pct_counts_mt"} \subseteq DOMAIN A.obs_cols
       /\ k.pc = "pl_highly_variable_genes" => "highly_variable" \in DOMAIN A.var_cols
       /\ k.pc = "neighbors_1" => "X_pca" \notin DOMAIN A.obsm
       /\ k.pc \in {"leiden", "umap"} => "neighbors" \in DOMAIN A.uns
       /\ k.pc = "tsne" => "X_pca" \in DOMAIN A.obsm /\ A.obsm["X_pca"].n_comps >= 10
       /\ k.pc = "neighbors_2" => "X_pca" \in DOMAIN A.obsm /\ A.obsm["X_pca"].n_comps >= 20
       /\ k.pc = "pl_pca_variance_ratio" => "pca" \in DOMAIN A.uns
       /\ k.pc \in DOMAIN BasisOf => BasisOf[k.pc] \in DOMAIN A.obsm
       /\ k.pc \in ColoredPlots =>
            /\ "leiden" \in DOMAIN A.obs_cols
            /\ A.raw.set
            /\ \A gname \in {"CST3", "NKG7", "PPBP"} : BlockOfGene(gname) \in Present(A.raw.var)
       /\ k.pc = "copy" => "counts" \in DOMAIN A.layers
       /\ k.pc \in {"hvg_scvi", "setup_anndata"} =>
            "counts" \in DOMAIN k.heap[k.adata_scvi].layers
       /\ k.pc = "SCVI" => "_scvi" \in DOMAIN k.heap[k.adata_scvi].uns
       /\ k.pc = "train" => k.vae.bound
       /\ k.pc = "get_latent" => k.vae.is_trained
  /\ k.err \notin {"KeyError", "AttributeError", "RuntimeError"}
  /\ k.err = "ValueError" => k.pc \in {"neighbors_1", "pca"}

\* sc.tl.umap is about to read the second graph; leiden, X_pca and X_tsne are there
C12_Witness ==
  /\ k.pc = "umap" /\ k.err = "none"
  /\ A.uns["neighbors"].n_neighbors = 15
  /\ "leiden" \in DOMAIN A.obs_cols
  /\ {"X_pca", "X_tsne"} \subseteq DOMAIN A.obsm

====
